---- MODULE Spec2Model ----
(***************************************************************************)
(* Model of scripts/extract-zip-and-count.mjs: the zip extraction pipeline *)
(* (resolve, root extraction, nested-extraction loop, cleanup, summary).   *)
(*                                                                         *)
(* A file name is a sequence of tokens ("a" ".zip"), so that extname,      *)
(* basename(p, '.zip'), startsWith('._') and the `_extracted` / timestamp  *)
(* suffixes are computed as path.* and the template strings compute them.  *)
(* A path is a sequence of names below the filesystem root <<>>.           *)
(***************************************************************************)
EXTENDS Naturals, Sequences, FiniteSets, TLC

\* ---------------------------------------------------------------- bounds
\* Longest path (in components) the model follows an extraction into.
MaxDepth == 5
\* Date.now() takes the values 1..MaxClock.
MaxClock == 2

\* ---------------------------------------------------------------- names
ExtTokens == {".zip", ".ZIP", ".png", ".txt"}

\* String.prototype.toLowerCase, token by token.
ToLowerCase(tok) ==
  CASE tok = ".ZIP" -> ".zip"
    [] tok = "PKG" -> "pkg"
    [] tok = "B" -> "b"
    [] OTHER -> tok
LowerName(n) == [i \in 1..Len(n) |-> ToLowerCase(n[i])]

Last(s) == s[Len(s)]

\* path.basename(p)
Basename(p) == Last(p)

\* path.dirname(p)
Dirname(p) == SubSeq(p, 1, Len(p) - 1)

\* path.join(dir, name)
Join(dir, name) == Append(dir, name)

\* path.extname(p): the last extension of the basename, "" when there is none
\* or when the basename is a dot-file with nothing before the extension.
Extname(p) ==
  LET n == Basename(p)
  IN  IF Len(n) > 1 /\ Last(n) \in ExtTokens THEN Last(n) ELSE ""

\* path.basename(p, '.zip'): strips a trailing '.zip' (case-sensitively), not
\* when it is the whole basename.
BasenameNoZip(p) ==
  LET n == Basename(p)
  IN  IF Len(n) > 1 /\ Last(n) = ".zip" THEN SubSeq(n, 1, Len(n) - 1) ELSE n

\* `${base}_extracted`
ExtractedName(base) == Append(base, "_extracted")

\* base.startsWith('._')
StartsWithDotUnderscore(n) == n[1] = "._"

MACOSX == <<"__MACOSX">>
DSStore == <<".DS_Store">>

\* filePath.includes('/__MACOSX/'): some directory component is __MACOSX.
InMacosxDir(p) == \E i \in 1..(Len(p) - 1) : p[i] = MACOSX

isRealZipPath(p) ==
  /\ ToLowerCase(Extname(p)) = ".zip"
  /\ ~StartsWithDotUnderscore(Basename(p))
  /\ ~InMacosxDir(p)

\* Mutant of line 108: only .DS_Store counts as a metadata file.
isMacMetadataFile_OnlyDSStore(p) == Basename(p) = DSStore

isMacMetadataFile(p) ==
  Basename(p) = DSStore \/ StartsWithDotUnderscore(Basename(p))

\* ---------------------------------------------------------------- filesystem
\* A filesystem is a function from the existing paths to their nodes.
\* mode: "rwx" (0o755 and the like), "r-x" (read-only), "---" (no access).
\* own: the process may chmod the node.
DirNode(mode, own) == [kind |-> "dir", content |-> "", mode |-> mode, own |-> own, mtime |-> 0]
FileNode(content, mtime) == [kind |-> "file", content |-> content, mode |-> "rwx", own |-> TRUE, mtime |-> mtime]

IsPrefix(p, q) == Len(p) <= Len(q) /\ SubSeq(q, 1, Len(p)) = p

Exists(f, p) == p \in DOMAIN f
IsDir(f, p) == Exists(f, p) /\ f[p].kind = "dir"
IsFile(f, p) == Exists(f, p) /\ f[p].kind = "file"

\* p and everything below it.
Under(f, p) == {q \in DOMAIN f : IsPrefix(p, q)}
Below(f, p) == Under(f, p) \ {p}
Children(f, p) == {q \in DOMAIN f : Len(q) = Len(p) + 1 /\ IsPrefix(p, q)}

\* Every existing directory above p can be traversed.
Reachable(f, p) ==
  \A i \in 0..(Len(p) - 1) :
    LET a == SubSeq(p, 1, i) IN Exists(f, a) => (f[a].kind = "dir" /\ f[a].mode # "---")

CanWriteDir(f, d) == IsDir(f, d) /\ f[d].mode = "rwx" /\ Reachable(f, d)
CanReadDir(f, d) == IsDir(f, d) /\ f[d].mode # "---" /\ Reachable(f, d)

Without(f, S) == [q \in (DOMAIN f \ S) |-> f[q]]
Overlay(f, g) == [q \in (DOMAIN f \cup DOMAIN g) |-> IF q \in DOMAIN g THEN g[q] ELSE f[q]]

\* readdir-driven walks: they throw when a directory below dirPath (or
\* dirPath itself) cannot be read.
WalkThrows(f, dirPath) ==
  \/ ~CanReadDir(f, dirPath)
  \/ \E d \in Under(f, dirPath) : f[d].kind = "dir" /\ f[d].mode = "---"

listFilesRecursive(f, dirPath) == {q \in Below(f, dirPath) : f[q].kind = "file"}
listDirsRecursive(f, dirPath) == {q \in Below(f, dirPath) : f[q].kind = "dir"}

\* ---------------------------------------------------------------- fs calls
\* rm(p, { recursive: true, force: true }).  An entry can be unlinked when its
\* parent directory is writable; a missing path is no error (force).
RmStuck(f, p) == {q \in Under(f, p) : ~CanWriteDir(f, Dirname(q))}
RmKept(f, p) == {q \in Under(f, p) : \E s \in RmStuck(f, p) : IsPrefix(q, s)}
RmOk(f, p) ==
  IF Exists(f, p) THEN RmStuck(f, p) = {} ELSE Reachable(f, p)
\* The filesystems rm can leave: everything below p gone when it succeeds;
\* when it fails, anything between nothing and all it could unlink (the two
\* extremes are modelled).
RmResults(f, p) ==
  IF RmOk(f, p) THEN {Without(f, Under(f, p))}
  ELSE {f, Without(f, Under(f, p) \ RmKept(f, p))}

\* mkdir(p, { recursive: true })
MkdirNew(f, p) == {SubSeq(p, 1, i) : i \in 1..Len(p)} \ DOMAIN f
MkdirAnchor(f, p) ==
  LET have == {i \in 0..Len(p) : Exists(f, SubSeq(p, 1, i))}
  IN  SubSeq(p, 1, CHOOSE i \in have : \A j \in have : j <= i)
MkdirOk(f, p) ==
  IF Exists(f, p) THEN IsDir(f, p) /\ Reachable(f, p)
  ELSE CanWriteDir(f, MkdirAnchor(f, p))
Mkdir(f, p) == Overlay(f, [q \in MkdirNew(f, p) |-> DirNode("rwx", TRUE)])

\* chmod(p, 0o755)
ChmodOk(f, p) == f[p].own
Chmod755(f, S) == [q \in DOMAIN f |-> IF q \in S THEN [f[q] EXCEPT !.mode = "rwx"] ELSE f[q]]

\* ---------------------------------------------------------------- archives
\* An archive is a set of entries: rel is the entry's path as ditto writes it,
\* relC its path as unzip writes it under LANG=C (they differ for a name with
\* odd bytes), node what is written there.
Entry(rel, node) == [rel |-> rel, relC |-> rel, node |-> node]
OddEntry(rel, relC, node) == [rel |-> rel, relC |-> relC, node |-> node]
Dat(stem, ext) == <<stem, ext>>
ZipFile(a) == FileNode(a, 0)
Data == FileNode("data", 0)
Corrupt == "corrupt"

Entries(a) ==
  CASE a = "Leaf" -> {Entry(<<Dat("d", ".txt")>>, Data)}
    [] a = "Leaf2" -> {Entry(<<Dat("e", ".txt")>>, Data)}
    [] a = "Mid" -> {Entry(<<Dat("c", ".zip")>>, ZipFile("Leaf")),
                     Entry(<<Dat("m", ".txt")>>, Data)}
    [] a = "Deep" -> {Entry(<<Dat("b", ".zip")>>, ZipFile("Mid")),
                      Entry(<<(<<"sub">>)>>, DirNode("rwx", TRUE)),
                      Entry(<<(<<"sub">>), Dat("B", ".ZIP")>>, ZipFile("Leaf2"))}
    [] a = "Three" -> {Entry(<<Dat("ok1", ".zip")>>, ZipFile("Leaf")),
                       Entry(<<Dat("ok2", ".zip")>>, ZipFile("Leaf2")),
                       Entry(<<Dat("bad", ".zip")>>, ZipFile(Corrupt))}
    [] a = "Quine" -> {Entry(<<Dat("q", ".zip")>>, ZipFile("Quine"))}
    [] a = "XInner" -> {Entry(<<Dat("b", ".zip")>>, ZipFile("Leaf2"))}
    [] a = "Collide" -> {Entry(<<Dat("x", ".zip")>>, ZipFile("XInner")),
                         Entry(<<(<<"x", "_extracted">>)>>, DirNode("rwx", TRUE)),
                         Entry(<<(<<"x", "_extracted">>), Dat("b", ".zip")>>, ZipFile("Leaf")),
                         Entry(<<(<<"x", "_extracted">>), Dat("keep", ".txt")>>, Data)}
    [] a = "Mac" -> {Entry(<<MACOSX>>, DirNode("rwx", TRUE)),
                     Entry(<<MACOSX, <<"._", "foo", ".png">> >>, Data),
                     Entry(<<MACOSX, Dat("n", ".zip")>>, ZipFile("Leaf")),
                     Entry(<<DSStore>>, Data),
                     Entry(<<(<<"._", "n", ".zip">>)>>, Data),
                     Entry(<<Dat("n", ".zip")>>, ZipFile("Leaf")),
                     Entry(<<(<<"pics">>)>>, DirNode("r-x", TRUE)),
                     Entry(<<(<<"pics">>), Dat("foo", ".png")>>, Data)}
    [] a = "Odd" -> {OddEntry(<<Dat("cafe'", ".txt")>>, <<Dat("caf#U00e9", ".txt")>>, Data),
                     Entry(<<Dat("z", ".zip")>>, ZipFile("Leaf"))}
    [] a = "Locked" -> {Entry(<<(<<"priv">>)>>, DirNode("---", TRUE)),
                        Entry(<<(<<"priv">>), Dat("s", ".txt")>>, Data)}
    [] OTHER -> {}

Archives == {"Leaf", "Leaf2", "Mid", "Deep", "Three", "Quine", "XInner", "Collide", "Mac", "Odd", "Locked"}

\* ---------------------------------------------------------------- tools
\* What `unzip -o zip -d out` / `ditto -x -k zip out` write when they extract.
ToolRel(tool, e) == IF tool = "unzip" THEN e.relC ELSE e.rel
Written(f, zip, out, tool) ==
  LET es == Entries(f[zip].content)
  IN  [q \in {out \o ToolRel(tool, e) : e \in es} |->
         (CHOOSE e \in es : out \o ToolRel(tool, e) = q).node]
\* The archive the tool finds is intact and the target can be written.
ToolCanExtract(f, zip, out) ==
  /\ IsFile(f, zip) /\ Reachable(f, zip)
  /\ f[zip].content \in Archives
  /\ CanWriteDir(f, out)
\* The outcomes of one tool run, as [ok, fs, err].  A tool may fail on an
\* intact archive too (odd file names, tool not installed); a failed unzip has
\* written nothing or has written its entries and exited non-zero.
ToolErr(tool, why) == [type |-> "Error", message |-> <<tool, why>>]
ToolRuns(f, zip, out, tool) ==
  IF ToolCanExtract(f, zip, out)
  THEN {[ok |-> TRUE, fs |-> Overlay(f, Written(f, zip, out, tool)), err |-> ToolErr(tool, "")],
        [ok |-> FALSE, fs |-> f, err |-> ToolErr(tool, "exit")]}
       \cup (IF tool = "unzip"
             THEN {[ok |-> FALSE, fs |-> Overlay(f, Written(f, zip, out, tool)),
                    err |-> ToolErr(tool, "warnings")]}
             ELSE {})
  ELSE {[ok |-> FALSE, fs |-> f, err |-> ToolErr(tool, "cannot extract")]}

errorText(err) == IF err.type = "Error" THEN err.message ELSE err

\* ---------------------------------------------------------------- program
VARIABLES
  fs,                 \* the filesystem
  now,                \* Date.now()
  zipArg, outputArg,  \* process.argv[2], process.argv[3]: {} when absent, else {path}
  pc,                 \* where main() is
  exitCode,           \* "running", 0 or 1
  zipPath, outputDir, \* main's variables
  processed, nestedZipCount, nestedZipFailures, pending,  \* extractNestedZips
  call,               \* the unzipToDir call in progress
  stats,              \* what main has logged
  \* history, read by the properties only
  calls,              \* the unzipToDir calls of the nested loop, in order
  tools,              \* the tool runs of the current unzipToDir call, in order
  ops,                \* number of rm / mkdir / tool invocations so far
  before,             \* the filesystem when the current unzipToDir call began
  everZips,           \* the qualifying zips the output tree has held: [path, content]
  cleaned,            \* the outcome of cleanupMacArtifacts, with the tree it was given
  rootTree            \* the filesystem when extractNestedZips was called

vars == <<fs, now, zipArg, outputArg, pc, exitCode, zipPath, outputDir, processed,
          nestedZipCount, nestedZipFailures, pending, call, stats,
          calls, tools, ops, before, everZips, cleaned, rootTree>>

progVars == <<zipPath, outputDir, processed, nestedZipCount, nestedZipFailures, pending>>
histVars == <<calls, tools, ops, before, everZips, cleaned, rootTree>>
argVars == <<zipArg, outputArg>>

CWD == <<>>
UPLOAD_DIR == <<(<<"upload">>)>>
NoPath == <<>>
NoCall == [zip |-> NoPath, preferred |-> NoPath, out |-> NoPath, ctx |-> "none",
           unzipMsg |-> <<>>, error |-> <<>>]
NoCleanup == [threw |-> FALSE, fs |-> <<>>, removedFiles |-> 0, removedDirs |-> 0,
              failedAt |-> NoPath, left |-> {}]
NoStats == [writableDirsUpdated |-> 0, removedFiles |-> 0, removedDirs |-> 0,
            nestedZipCount |-> 0, nestedZipFailures |-> 0, printed |-> FALSE,
            multipleMatches |-> FALSE]

\* ---------------------------------------------------------------- the disk
PkgZip == UPLOAD_DIR \o <<Dat("pkg", ".zip")>>
OldPkgZip == UPLOAD_DIR \o <<(<<"old">>), Dat("PKG", ".ZIP")>>
Photo == UPLOAD_DIR \o <<Dat("photo", ".png")>>
ArcZipZip == UPLOAD_DIR \o <<(<<"old">>), <<"arc", ".zip", ".zip">> >>
WorkDir == <<(<<"work">>)>>
WorkOut == WorkDir \o <<(<<"out">>)>>

\* What lies at the explicit output directory before the run.
PreStates == {"none", "file", "stale", "stuck", "roparent", "rofile"}
PreDisk(pre) ==
  LET work == IF pre \in {"roparent", "rofile"} THEN DirNode("r-x", FALSE) ELSE DirNode("rwx", TRUE)
      base == [q \in {WorkDir} |-> work]
      old == WorkOut \o <<Dat("old", ".txt")>>
      keep == WorkOut \o <<(<<"keep">>)>>
      kept == keep \o <<Dat("old", ".txt")>>
  IN  CASE pre \in {"file", "rofile"} -> Overlay(base, [q \in {WorkOut} |-> Data])
        [] pre = "stale" -> Overlay(base, [q \in {WorkOut, old} |->
                                             IF q = old THEN Data ELSE DirNode("rwx", TRUE)])
        [] pre = "stuck" -> Overlay(base, [q \in {WorkOut, keep, kept} |->
                                             IF q = kept THEN Data
                                             ELSE IF q = keep THEN DirNode("r-x", FALSE)
                                             ELSE DirNode("rwx", TRUE)])
        [] OTHER -> base

Disk(root, pre) ==
  Overlay(
    [q \in {CWD, UPLOAD_DIR, PkgZip, Dirname(OldPkgZip), OldPkgZip, Photo, ArcZipZip} |->
       CASE q = PkgZip -> FileNode(root, 2)
         [] q = OldPkgZip -> FileNode("Leaf", 3)
         [] q = ArcZipZip -> FileNode("Leaf", 1)
         [] q = Photo -> FileNode("data", 1)
         [] OTHER -> DirNode("rwx", TRUE)],
    PreDisk(pre))

ZipArgs == {{}, {PkgZip}, {<<Dat("pkg", ".zip")>>}, {<<(<<"pkg">>)>>},
            {<<Dat("photo", ".png")>>}, {<<(<<"nope">>)>>},
            {<<Dat("arc", ".zip")>>}, {<<(<<"arc", ".zip", ".zip">>)>>}}
RootContents == Archives \cup {Corrupt}

\* The runs explored: every root archive under the plain invocation
\* `pkg.zip`, every state of an explicit output directory, every form of the
\* zip argument.
Scenarios ==
  {s \in [arg : ZipArgs, root : RootContents, out : {{}, {WorkOut}}, pre : PreStates] :
     /\ s.out = {} => s.pre = "none"
     /\ s.arg # {<<Dat("pkg", ".zip")>>} => (s.root = "Leaf" /\ s.out = {})}

Init ==
  \E s \in Scenarios :
    /\ fs = Disk(s.root, s.pre)
    /\ zipArg = s.arg
    /\ outputArg = s.out
    /\ now = 1
    /\ pc = "resolve"
    /\ exitCode = "running"
    /\ zipPath = NoPath
    /\ outputDir = NoPath
    /\ processed = {}
    /\ nestedZipCount = 0
    /\ nestedZipFailures = 0
    /\ pending = <<>>
    /\ call = NoCall
    /\ stats = NoStats
    /\ calls = <<>>
    /\ tools = <<>>
    /\ ops = 0
    /\ before = fs
    /\ everZips = {}
    /\ cleaned = NoCleanup
    /\ rootTree = <<>>

\* ---------------------------------------------------------------- resolve
\* Mutant of lines 178 and 207: the sort is ascending, the oldest comes first.
Newest_Oldest(f, S) == {z \in S : \A y \in S : f[z].mtime <= f[y].mtime}

\* withMtime.sort((a, b) => b.mtimeMs - a.mtimeMs)[0]
Newest(f, S) == {z \in S : \A y \in S : f[y].mtime <= f[z].mtime}

\* resolveZipFromArgs(zipArg): the set of its possible outcomes.
resolveZipFromArgs(f, arg) ==
  IF arg # {}
  THEN LET cleanArg == CHOOSE a \in arg : TRUE
           directPath == CWD \o cleanArg
           uploadPath == UPLOAD_DIR \o cleanArg
           uploadFiles == IF WalkThrows(f, UPLOAD_DIR) THEN {}
                          ELSE listFilesRecursive(f, UPLOAD_DIR)
           uploadZips == {file \in uploadFiles : isRealZipPath(file)}
           normalizedArg == LowerName(cleanArg[1])
           normalizedArgZip == IF Last(normalizedArg) = ".zip" THEN normalizedArg
                               ELSE Append(normalizedArg, ".zip")
           \* an argument with a directory part equals no basename
           matches == {file \in uploadZips :
                         /\ Len(cleanArg) = 1
                         /\ LET base == LowerName(Basename(file))
                            IN  base = normalizedArg \/ base = normalizedArgZip}
       IN  IF IsFile(f, directPath) /\ Reachable(f, directPath)
             THEN {[ok |-> TRUE, path |-> directPath, logged |-> FALSE]}
           ELSE IF IsFile(f, uploadPath) /\ Reachable(f, uploadPath)
             THEN {[ok |-> TRUE, path |-> uploadPath, logged |-> FALSE]}
           ELSE IF Cardinality(matches) = 1
             THEN {[ok |-> TRUE, path |-> z, logged |-> FALSE] : z \in matches}
           ELSE IF Cardinality(matches) > 1
             THEN {[ok |-> TRUE, path |-> z, logged |-> TRUE] : z \in Newest(f, matches)}
           ELSE {[ok |-> FALSE, path |-> NoPath, logged |-> FALSE]}
  ELSE LET zips == {file \in listFilesRecursive(f, UPLOAD_DIR) : isRealZipPath(file)}
       IN  IF ~IsDir(f, UPLOAD_DIR) \/ WalkThrows(f, UPLOAD_DIR) \/ zips = {}
             THEN {[ok |-> FALSE, path |-> NoPath, logged |-> FALSE]}
           ELSE {[ok |-> TRUE, path |-> z, logged |-> FALSE] : z \in Newest(f, zips)}

\* ---------------------------------------------------------------- main
\* process.exit(code) / main() settling.
Exit(code) == pc' = "exited" /\ exitCode' = code

\* Mutant of line 283: the catch handler exits with code 0.
MainCatch_ExitZero == Exit(0)

\* main().catch: log and exit 1.
MainCatch == Exit(1)

\* The qualifying zips of the tree at dir, with what they hold.
ZipsIn(f, dir) ==
  {[path |-> q, content |-> f[q].content] : q \in {z \in listFilesRecursive(f, dir) : isRealZipPath(z)}}

\* line 245
Resolve ==
  /\ pc = "resolve"
  /\ \E r \in resolveZipFromArgs(fs, zipArg) :
       /\ stats' = [stats EXCEPT !.multipleMatches = r.logged]
       /\ IF r.ok
          THEN /\ zipPath' = r.path
               /\ pc' = "checkExt"
               /\ UNCHANGED exitCode
          ELSE /\ MainCatch
               /\ UNCHANGED zipPath
  /\ UNCHANGED <<fs, now, argVars, outputDir, processed, nestedZipCount, nestedZipFailures,
                 pending, call, histVars>>

\* Mutant of lines 246-249: the extension is not tested.
IsZipExt_Unchecked(p) == TRUE

\* The extension test of lines 246-249.
IsZipExt(p) == ToLowerCase(Extname(p)) = ".zip"

\* lines 251-252
RequestedOutputDir(zp, outArg) ==
  LET defaultOutput == Join(Dirname(zp), ExtractedName(BasenameNoZip(zp)))
  IN  IF outArg = {} THEN defaultOutput ELSE CWD \o (CHOOSE o \in outArg : TRUE)

\* lines 246-257: the extension check, then the call of unzipToDir on the root zip.
CheckExt ==
  /\ pc = "checkExt"
  /\ IF ~IsZipExt(zipPath)
     THEN /\ Exit(1)
          /\ UNCHANGED <<outputDir, call, before>>
     ELSE /\ outputDir' = RequestedOutputDir(zipPath, outputArg)
          /\ call' = [NoCall EXCEPT !.zip = zipPath, !.preferred = outputDir', !.ctx = "root"]
          /\ before' = fs
          /\ pc' = "prepareEmptyDir"
          /\ UNCHANGED exitCode
  /\ UNCHANGED <<fs, now, argVars, zipPath, processed, nestedZipCount, nestedZipFailures,
                 pending, stats, calls, tools, ops, everZips, cleaned, rootTree>>

\* ---------------------------------------------------------------- unzipToDir
\* buildFallbackDirPath(preferredDir) at Date.now() = t
buildFallbackDirPath(preferredDir, t) ==
  Join(Dirname(preferredDir), Append(Basename(preferredDir), "_" \o ToString(t)))

\* Mutant of line 69: the preferred path is not removed before the mkdir.
prepareEmptyDir_NoRm(f, preferredDir, t) ==
  LET fallbackDir == buildFallbackDirPath(preferredDir, t)
  IN  IF MkdirOk(f, preferredDir)
      THEN {[threw |-> FALSE, dir |-> preferredDir, fs |-> Mkdir(f, preferredDir),
             fellBack |-> FALSE, nops |-> 1]}
      ELSE IF MkdirOk(f, fallbackDir)
      THEN {[threw |-> FALSE, dir |-> fallbackDir, fs |-> Mkdir(f, fallbackDir),
             fellBack |-> TRUE, nops |-> 2]}
      ELSE {[threw |-> TRUE, dir |-> NoPath, fs |-> f, fellBack |-> TRUE, nops |-> 2]}

\* prepareEmptyDir(preferredDir) at Date.now() = t: its possible outcomes.
\* threw: the mkdir of the catch block failed, so the error leaves the function.
prepareEmptyDir(f, preferredDir, t) ==
  LET fallbackDir == buildFallbackDirPath(preferredDir, t)
      After(f1) ==
        IF RmOk(f, preferredDir) /\ MkdirOk(f1, preferredDir)
        THEN [threw |-> FALSE, dir |-> preferredDir, fs |-> Mkdir(f1, preferredDir),
              fellBack |-> FALSE, nops |-> 2]
        ELSE IF MkdirOk(f1, fallbackDir)
        THEN [threw |-> FALSE, dir |-> fallbackDir, fs |-> Mkdir(f1, fallbackDir),
              fellBack |-> TRUE, nops |-> IF RmOk(f, preferredDir) THEN 3 ELSE 2]
        ELSE [threw |-> TRUE, dir |-> NoPath, fs |-> f1,
              fellBack |-> TRUE, nops |-> IF RmOk(f, preferredDir) THEN 3 ELSE 2]
  IN  {After(f1) : f1 \in RmResults(f, preferredDir)}

InNested == call.ctx = "nested"
SeenZips(f) == IF InNested THEN everZips \cup ZipsIn(f, outputDir) ELSE everZips

\* line 84
PrepareEmptyDir ==
  /\ pc = "prepareEmptyDir"
  /\ \E t \in {now, now + 1} \cap (1..MaxClock) :
     \E r \in prepareEmptyDir(fs, call.preferred, t) :
       /\ r.fellBack \/ t = now
       /\ now' = t
       /\ fs' = r.fs
       /\ ops' = ops + r.nops
       /\ IF r.threw
          THEN /\ call' = [call EXCEPT !.error = <<"mkdir", "fallback">>]
               /\ pc' = "threw"
          ELSE /\ call' = [call EXCEPT !.out = r.dir]
               /\ pc' = "unzip"
       /\ everZips' = SeenZips(r.fs)
  /\ tools' = <<>>
  /\ UNCHANGED <<argVars, exitCode, progVars, stats, calls, before, cleaned, rootTree>>

\* Where unzipToDir goes after the primary tool: line 103 or the catch block.
AfterUnzip(ok) == IF ok THEN "returned" ELSE "ditto"

\* lines 85-93
RunUnzip ==
  /\ pc = "unzip"
  /\ \E r \in ToolRuns(fs, call.zip, call.out, "unzip") :
       /\ fs' = r.fs
       /\ tools' = Append(tools, [tool |-> "unzip", ok |-> r.ok, msg |-> errorText(r.err)])
       /\ pc' = AfterUnzip(r.ok)
       /\ call' = IF r.ok THEN call ELSE [call EXCEPT !.unzipMsg = errorText(r.err)]
       /\ everZips' = SeenZips(r.fs)
  /\ ops' = ops + 1
  /\ UNCHANGED <<now, argVars, exitCode, progVars, stats, calls, before, cleaned, rootTree>>

\* line 100: the error thrown when both tools failed.
BothFailed(unzipMsg, dittoMsg) == [unzip |-> unzipMsg, ditto |-> dittoMsg]

\* lines 94-101
RunDitto ==
  /\ pc = "ditto"
  /\ \E r \in ToolRuns(fs, call.zip, call.out, "ditto") :
       /\ fs' = r.fs
       /\ tools' = Append(tools, [tool |-> "ditto", ok |-> r.ok, msg |-> errorText(r.err)])
       /\ IF r.ok
          THEN /\ pc' = "returned"
               /\ UNCHANGED call
          ELSE /\ pc' = "threw"
               /\ call' = [call EXCEPT !.error = BothFailed(call.unzipMsg, errorText(r.err))]
       /\ everZips' = SeenZips(r.fs)
  /\ ops' = ops + 1
  /\ UNCHANGED <<now, argVars, exitCode, progVars, stats, calls, before, cleaned, rootTree>>

\* lines 257-259: the root extraction returned.
RootReturn ==
  /\ pc = "returned" /\ call.ctx = "root"
  /\ outputDir' = call.out
  /\ pc' = "normalize"
  /\ everZips' = ZipsIn(fs, call.out)
  /\ UNCHANGED <<fs, now, argVars, exitCode, zipPath, processed, nestedZipCount,
                 nestedZipFailures, pending, call, stats, calls, tools, ops, before, cleaned, rootTree>>

\* lines 257, 281-284: the root extraction threw.
RootThrow ==
  /\ pc = "threw" /\ call.ctx = "root"
  /\ MainCatch
  /\ UNCHANGED <<fs, now, argVars, progVars, call, stats, histVars>>

\* ---------------------------------------------------------------- normalize
\* makeDirectoriesWritable(rootDir): listDirsRecursive runs before any chmod.
makeDirectoriesWritable(f, rootDir) ==
  LET dirs == {rootDir} \cup listDirsRecursive(f, rootDir)
      done == {d \in dirs : ChmodOk(f, d)}
  IN  [threw |-> WalkThrows(f, rootDir), fs |-> Chmod755(f, done), updated |-> Cardinality(done)]

\* lines 260-261
Normalize ==
  /\ pc = "normalize"
  /\ LET r == makeDirectoriesWritable(fs, outputDir)
     IN  IF r.threw
         THEN /\ MainCatch
              /\ UNCHANGED <<fs, stats, rootTree>>
         ELSE /\ fs' = r.fs
              /\ stats' = [stats EXCEPT !.writableDirsUpdated = r.updated]
              /\ rootTree' = r.fs
              /\ pc' = "scan"
              /\ UNCHANGED exitCode
  /\ UNCHANGED <<now, argVars, progVars, call, calls, tools, ops, before, everZips, cleaned>>

\* ---------------------------------------------------------------- extractNestedZips
\* The orders a listing can give the files of S in.
Orders(S) ==
  {o \in [1..Cardinality(S) -> S] : \A i, j \in 1..Cardinality(S) : o[i] = o[j] => i = j}

\* Mutant of line 218: only the files directly in rootOutputDir are listed.
PendingZips_TopLevel(f, rootOutputDir, done) ==
  {z \in Children(f, rootOutputDir) : f[z].kind = "file" /\ isRealZipPath(z) /\ z \notin done}

\* lines 218-220: the zips of the tree that are not in the processed-set.
PendingZips(f, rootOutputDir, done) ==
  {z \in listFilesRecursive(f, rootOutputDir) : isRealZipPath(z) /\ z \notin done}

\* lines 216-221: one scan pass up to the break.
Scan ==
  /\ pc = "scan"
  /\ LET r == makeDirectoriesWritable(fs, outputDir)
     IN  IF r.threw
         THEN /\ MainCatch
              /\ UNCHANGED <<fs, pending, stats>>
         ELSE /\ fs' = r.fs
              /\ \E o \in Orders(PendingZips(r.fs, outputDir, processed)) : pending' = o
              /\ IF pending' = <<>>
                 THEN /\ pc' = "cleanup"
                      /\ stats' = [stats EXCEPT !.nestedZipCount = nestedZipCount,
                                                !.nestedZipFailures = nestedZipFailures]
                 ELSE /\ pc' = "forEach"
                      /\ UNCHANGED stats
              /\ UNCHANGED exitCode
  /\ UNCHANGED <<now, argVars, zipPath, outputDir, processed, nestedZipCount,
                 nestedZipFailures, call, histVars>>

\* Mutant of line 224: the pending zip is not recorded.
AddProcessed_Skipped(done, zp) == done

\* line 224
AddProcessed(done, zp) == done \cup {zp}

\* lines 225-227
NestedOutputDir(zp) == Join(Dirname(zp), ExtractedName(BasenameNoZip(zp)))

ContentAt(f, p) == IF IsFile(f, p) THEN f[p].content ELSE "missing"

\* lines 223-229: the next pending zip is marked processed and handed to
\* unzipToDir.
ForEach ==
  /\ pc = "forEach"
  /\ pending # <<>>
  /\ LET zp == Head(pending)
     IN  /\ Len(NestedOutputDir(zp)) <= MaxDepth
         /\ processed' = AddProcessed(processed, zp)
         /\ call' = [NoCall EXCEPT !.zip = zp, !.preferred = NestedOutputDir(zp), !.ctx = "nested"]
         /\ calls' = Append(calls, [zip |-> zp, content |-> ContentAt(fs, zp), result |-> "running", runs |-> 0])
  /\ pending' = Tail(pending)
  /\ before' = fs
  /\ pc' = "prepareEmptyDir"
  /\ UNCHANGED <<fs, now, argVars, exitCode, zipPath, outputDir, nestedZipCount,
                 nestedZipFailures, stats, tools, ops, everZips, cleaned, rootTree>>

\* line 223 with nothing left, then line 216 again
LoopBack ==
  /\ pc = "forEach"
  /\ pending = <<>>
  /\ pc' = "scan"
  /\ UNCHANGED <<fs, now, argVars, exitCode, progVars, call, stats, histVars>>

\* The call's outcome and the number of tools it ran.
Mark(cs, res, runs) == [cs EXCEPT ![Len(cs)].result = res, ![Len(cs)].runs = runs]

\* lines 229-231
NestedReturn ==
  /\ pc = "returned" /\ call.ctx = "nested"
  /\ nestedZipCount' = nestedZipCount + 1
  /\ calls' = Mark(calls, "ok", Len(tools))
  /\ pc' = "forEach"
  /\ UNCHANGED <<fs, now, argVars, exitCode, zipPath, outputDir, processed,
                 nestedZipFailures, pending, call, stats, tools, ops, before, everZips, cleaned, rootTree>>

\* Mutant of line 233: the failure is not counted.
CountFailure_Dropped(n) == n

\* line 233
CountFailure(n) == n + 1

\* Mutant of lines 232-237: the failure leaves the loop.
AfterNestedFailure_Abort == "cleanup"

\* Where the loop goes after a nested failure: the next pending zip.
AfterNestedFailure == "forEach"

\* lines 232-236
NestedCatch ==
  /\ pc = "threw" /\ call.ctx = "nested"
  /\ nestedZipFailures' = CountFailure(nestedZipFailures)
  /\ calls' = Mark(calls, "failed", Len(tools))
  /\ pc' = AfterNestedFailure
  /\ UNCHANGED <<fs, now, argVars, exitCode, zipPath, outputDir, processed,
                 nestedZipCount, pending, call, stats, tools, ops, before, everZips, cleaned, rootTree>>

\* ---------------------------------------------------------------- cleanup
\* rm(p, ...) in cleanupMacArtifacts can fail although the directory modes
\* allow the removal (EPERM on an immutable entry, EBUSY, EIO): either answer.
RmMayFail(f, p) == IF RmOk(f, p) THEN {FALSE, TRUE} ELSE {TRUE}

\* cleanupMacArtifacts(rootOutputDir): its possible outcomes.  The files are
\* removed in listing order, then the __MACOSX directories, a directory after
\* everything below it; the first rm that fails throws out of the function.
\* failedAt is the path whose rm failed, left the paths that had not been
\* tried yet.
cleanupMacArtifacts(f, rootOutputDir) ==
  LET files == {q \in listFilesRecursive(f, rootOutputDir) : isMacMetadataFile(q)}
      f1 == Without(f, files)
      dirs == {d \in listDirsRecursive(f1, rootOutputDir) : Basename(d) = MACOSX}
      f2 == Without(f1, UNION {Under(f1, d) : d \in dirs})
      done == [threw |-> FALSE, fs |-> f2, removedFiles |-> Cardinality(files),
               removedDirs |-> Cardinality(dirs), failedAt |-> NoPath, left |-> {}]
      fileFailures ==
        {[threw |-> TRUE, fs |-> Without(f, S), removedFiles |-> Cardinality(S),
          removedDirs |-> 0, failedAt |-> x, left |-> (files \ S) \ {x}] :
           <<x, S>> \in {xs \in files \X SUBSET files :
                           /\ xs[1] \notin xs[2]
                           /\ TRUE \in RmMayFail(f, xs[1])
                           /\ \A q \in xs[2] : FALSE \in RmMayFail(f, q)}}
      dirFailures ==
        {[threw |-> TRUE, fs |-> Without(f1, UNION {Under(f1, d) : d \in S}),
          removedFiles |-> Cardinality(files), removedDirs |-> Cardinality(S),
          failedAt |-> x, left |-> (dirs \ S) \ {x}] :
           <<x, S>> \in {xs \in dirs \X SUBSET dirs :
                           /\ xs[1] \notin xs[2]
                           /\ TRUE \in RmMayFail(f1, xs[1])
                           /\ \A d \in xs[2] : FALSE \in RmMayFail(f1, d) /\ ~IsPrefix(d, xs[1])
                           /\ \A d \in dirs : (IsPrefix(xs[1], d) /\ d # xs[1]) => d \in xs[2]}}
      allFilesGo == \A q \in files : FALSE \in RmMayFail(f, q)
      allDirsGo == \A d \in dirs : FALSE \in RmMayFail(f1, d)
  IN  IF WalkThrows(f, rootOutputDir)
      THEN {[threw |-> TRUE, fs |-> f, removedFiles |-> 0, removedDirs |-> 0,
             failedAt |-> NoPath, left |-> {}]}
      ELSE fileFailures
           \cup (IF allFilesGo THEN dirFailures ELSE {})
           \cup (IF allFilesGo /\ allDirsGo THEN {done} ELSE {})

\* line 264
Cleanup ==
  /\ pc = "cleanup"
  /\ \E r \in cleanupMacArtifacts(fs, outputDir) :
       /\ fs' = r.fs
       /\ cleaned' = [r EXCEPT !.fs = fs]
       /\ IF r.threw
          THEN /\ MainCatch
               /\ UNCHANGED stats
          ELSE /\ stats' = [stats EXCEPT !.removedFiles = r.removedFiles,
                                         !.removedDirs = r.removedDirs]
               /\ pc' = "summary"
               /\ UNCHANGED exitCode
  /\ UNCHANGED <<now, argVars, progVars, call, calls, tools, ops, before, everZips, rootTree>>

\* lines 265-279: the final listings and the summary; main() settles, exit code 0.
Summary ==
  /\ pc = "summary"
  /\ IF WalkThrows(fs, outputDir)
     THEN /\ MainCatch
          /\ UNCHANGED stats
     ELSE /\ stats' = [stats EXCEPT !.printed = TRUE]
          /\ Exit(0)
  /\ UNCHANGED <<fs, now, argVars, progVars, call, histVars>>

Next ==
  \/ Resolve
  \/ CheckExt
  \/ PrepareEmptyDir
  \/ RunUnzip
  \/ RunDitto
  \/ RootReturn
  \/ RootThrow
  \/ Normalize
  \/ Scan
  \/ ForEach
  \/ LoopBack
  \/ NestedReturn
  \/ NestedCatch
  \/ Cleanup
  \/ Summary

Spec == Init /\ [][Next]_vars

\* ================================================================ properties
LoopReturned == pc \in {"cleanup", "summary"} \/ (pc = "exited" /\ stats.printed)
CallIndexes == 1..Len(calls)
OkCalls == {i \in CallIndexes : calls[i].result = "ok"}
FailedCalls == {i \in CallIndexes : calls[i].result = "failed"}

\* C1: in one run of extractNestedZips, unzipToDir is invoked on every zip
\* path at most once, whether the first attempt succeeded or failed and
\* however many scan passes list the path again.
C1_AtMostOncePerPath ==
  \A i, j \in CallIndexes : calls[i].zip = calls[j].zip => i = j

\* A zip whose extraction failed is still in the tree when a later pass has
\* scanned it again and the loop has returned.
C1_Witness ==
  /\ pc = "cleanup"
  /\ Len(calls) >= 2
  /\ \E i \in FailedCalls : IsFile(fs, calls[i].zip) /\ i < Len(calls)

\* C2: when the loop returns, every nested zip the tree has held (a qualifying
\* zip file, told from another by its path and what it holds) has been handed
\* to the extractor exactly once.
C2_EveryNestedZipOnce ==
  pc = "cleanup" =>
    \A z \in everZips :
      Cardinality({i \in CallIndexes : calls[i].zip = z.path /\ calls[i].content = z.content}) = 1

C4_CountsAndExitCode ==
  (pc = "exited" /\ stats.printed) =>
    /\ exitCode = 0
    /\ stats.nestedZipCount = Cardinality(OkCalls)
    /\ stats.nestedZipFailures = Cardinality(FailedCalls)

\* One corrupt and two valid nested zips: 2 extracted, 1 failed, exit 0.
C4_Witness ==
  /\ pc = "exited" /\ exitCode = 0
  /\ stats.nestedZipCount = 2 /\ stats.nestedZipFailures = 1
  /\ \E i \in FailedCalls : calls[i].content = Corrupt
  /\ \A i \in OkCalls : calls[i].content \in Archives

\* C5: a failed nested extraction adds one to the failure counter and does
\* not abort the loop: the pending zips of the pass that remain are kept,
\* each is handed to the extractor in turn, and only when none is left does
\* the loop start the next scan pass.
C5_FailureDoesNotAbort ==
  [][/\ (pc = "threw" /\ InNested) =>
          /\ nestedZipFailures' = nestedZipFailures + 1
          /\ pending' = pending
          /\ pc' = "forEach"
          /\ exitCode' = "running"
     /\ (pc = "forEach" /\ pending # <<>>) =>
          /\ pc' = "prepareEmptyDir"
          /\ call'.zip = Head(pending)
          /\ pending' = Tail(pending)
     /\ (pc = "forEach" /\ pending = <<>>) => pc' = "scan"]_vars

\* After a failure on the first of three pending zips the second is being
\* extracted and the third still waits.
C5_Witness ==
  /\ pc = "prepareEmptyDir" /\ InNested
  /\ Len(calls) = 2 /\ calls[1].result = "failed"
  /\ nestedZipFailures = 1
  /\ Len(pending) = 1

\* Whether rm-then-mkdir of the preferred directory failed for the call in
\* progress.
PrepareFailed ==
  \/ ~RmOk(before, call.preferred)
  \/ ~MkdirOk(Without(before, Under(before, call.preferred)), call.preferred)
IsFallbackOf(dir, preferredDir) ==
  \E t \in 1..(MaxClock + 1) : dir = buildFallbackDirPath(preferredDir, t)
InCall == pc \in {"unzip", "ditto", "returned", "threw"}

\* C6: a failure to clear and recreate the preferred directory is never
\* fatal: unzipToDir goes on with the sibling <preferredBase>_<timestamp>, and
\* it never throws before a tool has run.
C6_PrepareNeverFatal ==
  /\ (InCall /\ PrepareFailed) =>
       (tools # <<>> \/ pc = "unzip") /\ IsFallbackOf(call.out, call.preferred)
  /\ pc = "threw" => tools # <<>>

\* C7 as stated: with a regular file at the preferred path, a successful
\* extract returns the timestamp-suffixed sibling, not the preferred path.
C7_FileGivesFallback ==
  (pc = "returned" /\ IsFile(before, call.preferred)) =>
    (call.out # call.preferred /\ IsFallbackOf(call.out, call.preferred))

\* C7, amended: with a regular file at the preferred path that rm can remove,
\* the file is removed and the path recreated as a directory, and a
\* successful extract returns the preferred path itself.
C7_FileIsReplaced ==
  (call.ctx = "root" /\ IsFile(before, call.preferred) /\ RmOk(before, call.preferred)) =>
    /\ InCall =>
         /\ call.out = call.preferred
         /\ IsDir(fs, call.preferred)
         /\ ~\E t \in 1..(MaxClock + 1) : Exists(fs, buildFallbackDirPath(call.preferred, t))
    /\ pc = "normalize" => outputDir = call.preferred

C7_Witness ==
  /\ pc = "returned" /\ call.ctx = "root"
  /\ IsFile(before, call.preferred)
  /\ call.out = call.preferred
  /\ Below(fs, call.out) # {}

\* The order of the tools in a call that reaches them (lines 85-102): ditto
\* runs if and only if unzip failed, after it; the call returns if either
\* succeeded and throws the combined error if both failed.
ToolPhaseOrder ==
  /\ \A i \in 1..Len(tools) :
       /\ tools[i].tool = "unzip" <=> i = 1
       /\ tools[i].tool = "ditto" <=> (i = 2 /\ ~tools[1].ok)
  /\ Len(tools) <= 2
  /\ (pc = "returned") => (Len(tools) = IF tools[1].ok THEN 1 ELSE 2) /\ tools[Len(tools)].ok
  /\ (pc = "threw" /\ tools # <<>>) =>
       /\ Len(tools) = 2 /\ ~tools[1].ok /\ ~tools[2].ok
       /\ call.error = [unzip |-> tools[1].msg, ditto |-> tools[2].msg]
  /\ (pc = "ditto") => (Len(tools) = 1 /\ ~tools[1].ok)
  /\ (pc = "unzip") => tools = <<>>

\* C8: in one extraction attempt ditto is invoked if and only if unzip
\* failed, and after it; the attempt succeeds if either tool succeeds and
\* fails only when both failed, with an error that carries the diagnostic
\* text of both.
C8_FailsOnlyWhenBothFailed ==
  /\ ToolPhaseOrder
  /\ pc = "threw" =>
       /\ Len(tools) = 2 /\ ~tools[1].ok /\ ~tools[2].ok
       /\ call.error = [unzip |-> tools[1].msg, ditto |-> tools[2].msg]

\* What the tool that succeeded extracts from the archive into the
\* directory the call returns.
ExtractedPaths ==
  {call.out \o ToolRel(tools[Len(tools)].tool, e) : e \in Entries(ContentAt(before, call.zip))}

\* C9: when unzipToDir returns, the directory it returns holds exactly the
\* extracted contents of the zip: every entry of the archive and nothing
\* else.
C9_ExactContents ==
  pc = "returned" => Below(fs, call.out) = ExtractedPaths

\* C10: when the resolved path does not end in .zip (in any case), the process
\* exits with code 1 and nothing has been removed, created or run: the disk
\* is as it was.
C10_NonZipExitsUntouched ==
  (pc = "exited" /\ zipPath # NoPath /\ ToLowerCase(Extname(zipPath)) # ".zip") =>
    /\ exitCode = 1
    /\ ops = 0
    /\ fs = before
    /\ call = NoCall

C10_Witness ==
  /\ pc = "exited" /\ zipPath = Photo
  /\ exitCode = 1

\* cleanupMacArtifacts has been called / has returned.
CleanupRan == cleaned.fs # <<>>
CleanupReturned == CleanupRan /\ ~cleaned.threw

\* The metadata entries of the tree at dir: files named .DS_Store or ._*,
\* directories named __MACOSX.
MetadataFiles(f, dir) ==
  {q \in Below(f, dir) : f[q].kind = "file" /\ (Basename(q) = DSStore \/ Basename(q)[1] = "._")}
MetadataDirs(f, dir) ==
  {q \in Below(f, dir) : f[q].kind = "dir" /\ Basename(q) = MACOSX}

\* C11: after cleanupMacArtifacts(rootDir) has returned, no .DS_Store file, no
\* ._* file and no __MACOSX directory is left under rootDir, and the counts it
\* returned are the numbers of metadata files and of metadata directories
\* that were in the tree before and are gone.
C11_CleanupRemovesAndCounts ==
  CleanupReturned =>
    /\ MetadataFiles(fs, outputDir) = {}
    /\ MetadataDirs(fs, outputDir) = {}
    /\ cleaned.removedFiles = Cardinality(MetadataFiles(cleaned.fs, outputDir) \ DOMAIN fs)
    /\ cleaned.removedDirs = Cardinality(MetadataDirs(cleaned.fs, outputDir) \ DOMAIN fs)
    /\ stats.removedFiles = cleaned.removedFiles
    /\ stats.removedDirs = cleaned.removedDirs

\* An archive with __MACOSX/._foo.png, .DS_Store and ._n.zip has been cleaned:
\* three files and one directory, the ordinary files are still there.
C11_Witness ==
  /\ pc = "summary" /\ CleanupReturned
  /\ cleaned.removedFiles = 3 /\ cleaned.removedDirs = 1
  /\ Exists(cleaned.fs, outputDir \o <<MACOSX, <<"._", "foo", ".png">> >>)
  /\ Exists(fs, outputDir \o <<(<<"pics">>), Dat("foo", ".png")>>)

\* C12: when the removal of one metadata file or directory fails, the cleanup
\* is not aborted: cleanupMacArtifacts returns normally, the entries it had
\* not tried yet are removed all the same, and the process does not exit with
\* an error because of it.
C12_CleanupBestEffort ==
  (CleanupRan /\ cleaned.failedAt # NoPath) =>
    /\ ~cleaned.threw
    /\ \A q \in cleaned.left : ~Exists(fs, q)
    /\ exitCode # 1

\* The directories makeDirectoriesWritable is to work on, and those of them
\* whose mode it can set.
DirsOf(f, rootDir) == {rootDir} \cup {q \in Below(f, rootDir) : f[q].kind = "dir"}
Settable(f, rootDir) == {d \in DirsOf(f, rootDir) : f[d].own}

\* C13: makeDirectoriesWritable never aborts the pipeline: called by main or
\* by a scan pass on any tree, one with a directory that cannot be listed or
\* whose mode cannot be changed included, it returns, and the count it
\* returns is the number of directories, rootDir included, whose mode it set.
C13_NormalizeNeverAborts ==
  [][/\ pc = "normalize" =>
          /\ pc' = "scan"
          /\ stats'.writableDirsUpdated = Cardinality(Settable(fs, outputDir))
          /\ \A d \in Settable(fs, outputDir) : fs'[d].mode = "rwx"
     /\ pc = "scan" => pc' \in {"forEach", "cleanup"}]_vars

\* The root zip has been extracted: unzipToDir returned to main.
RootExtracted ==
  \/ call.ctx = "nested"
  \/ call.ctx = "root" /\ pc \notin {"prepareEmptyDir", "unzip", "ditto", "threw"}
                       /\ tools # <<>> /\ tools[Len(tools)].ok

\* C14: once the root extraction has succeeded the run ends with the summary
\* and exit code 0; a failure of permission normalization, of a directory
\* listing, of a nested extraction or of a metadata removal does not end it
\* with code 1.
C14_ExitOneOnlyBeforeRoot ==
  (pc = "exited" /\ RootExtracted) => (exitCode = 0 /\ stats.printed)

\* resolveZipFromArgs has settled and nothing else has run: the disk is the
\* one it looked at.
Resolved == pc = "checkExt" \/ (pc = "exited" /\ zipPath = NoPath)
TheArg == CHOOSE a \in zipArg : TRUE
\* The argument names no existing file, neither directly nor in upload/.
NamesNoFile == zipArg # {} /\ ~IsFile(fs, CWD \o TheArg) /\ ~IsFile(fs, UPLOAD_DIR \o TheArg)
QualifyingUploadZips ==
  {z \in Below(fs, UPLOAD_DIR) :
     /\ fs[z].kind = "file" /\ ToLowerCase(Extname(z)) = ".zip"
     /\ Basename(z)[1] # "._"
     /\ ~\E i \in 1..(Len(z) - 1) : z[i] = MACOSX}
\* What resolution by basename gives for the set M of matching zips.
ResolvesAmong(M) ==
  /\ Cardinality(M) = 1 => (zipPath \in M /\ ~stats.multipleMatches /\ pc = "checkExt")
  /\ Cardinality(M) > 1 =>
       /\ zipPath \in M /\ pc = "checkExt"
       /\ \A y \in M : fs[y].mtime <= fs[zipPath].mtime
       /\ stats.multipleMatches
  /\ M = {} => (zipPath = NoPath /\ pc = "exited" /\ exitCode = 1)

\* C15 as stated: an argument that names no file is matched case-insensitively,
\* as given and with .zip appended, against the basenames of the qualifying
\* zips under upload/; one match is returned, of several the newest is
\* returned and logged, none is a resolution failure.
C15_MatchesArgAndArgZip ==
  (Resolved /\ NamesNoFile) =>
    ResolvesAmong({z \in QualifyingUploadZips :
                     /\ Len(TheArg) = 1
                     /\ LowerName(Basename(z)) \in
                          {LowerName(TheArg[1]), Append(LowerName(TheArg[1]), ".zip")}})

\* C15, amended: .zip is appended only to an argument that does not end in
\* .zip (in any case) already.
C15_MatchesArgOrArgZip ==
  (Resolved /\ NamesNoFile) =>
    ResolvesAmong({z \in QualifyingUploadZips :
                     /\ Len(TheArg) = 1
                     /\ LowerName(Basename(z)) =
                          IF ToLowerCase(Last(TheArg[1])) = ".zip" THEN LowerName(TheArg[1])
                          ELSE Append(LowerName(TheArg[1]), ".zip")})

\* `pkg` matches upload/pkg.zip and upload/old/PKG.ZIP: the newer one is
\* taken and the choice logged.
C15_Witness ==
  /\ pc = "checkExt" /\ NamesNoFile
  /\ zipPath = OldPkgZip
  /\ stats.multipleMatches

\* C16: a pending zip is put into the processed-set before unzipToDir is
\* invoked on it: whenever a nested extraction of p is in progress or is
\* over, with either outcome, p is in the processed-set; and no path ever
\* leaves the processed-set.
C16_ProcessedBeforeExtract ==
  [][/\ processed \subseteq processed'
     /\ \A i \in 1..Len(calls') : calls'[i].zip \in processed'
     /\ (call'.ctx = "nested") => call'.zip \in processed']_vars

\* The extractor is about to run on a nested zip that is already recorded,
\* after an earlier nested extraction failed.
C16_Witness ==
  /\ pc = "unzip" /\ InNested
  /\ call.zip \in processed
  /\ FailedCalls # {}
  /\ \A i \in FailedCalls : calls[i].zip \in processed

\* The qualifying zips of the tree at dir: extension .zip in any case,
\* basename not starting with ._, not below a __MACOSX directory.
QualifyingZips(f, dir) ==
  {z \in Below(f, dir) :
     /\ f[z].kind = "file" /\ ToLowerCase(Extname(z)) = ".zip"
     /\ Basename(z)[1] # "._"
     /\ ~\E i \in 1..(Len(z) - 1) : z[i] = MACOSX}

\* C17: extractNestedZips returns only at a fixpoint: when it returns, every
\* qualifying zip that exists under rootOutputDir is in the processed-set.
C17_ReturnsAtFixpoint ==
  [][(pc = "scan" /\ pc' = "cleanup") =>
        QualifyingZips(fs', outputDir) \subseteq processed']_vars

\* The loop has returned from a tree with zips on three levels, one of them
\* named *.ZIP, all of them processed and still in the tree.
C17_Witness ==
  /\ pc = "cleanup"
  /\ Cardinality(QualifyingZips(fs, outputDir)) >= 3
  /\ \E z \in QualifyingZips(fs, outputDir) : Len(z) >= Len(outputDir) + 2
  /\ \E z \in QualifyingZips(fs, outputDir) : Extname(z) = ".ZIP"
  /\ QualifyingZips(fs, outputDir) \subseteq processed

\* Both tools have run on the root zip and both have failed.
RootBothFailed ==
  call.ctx = "root" /\ Len(tools) = 2 /\ ~tools[1].ok /\ ~tools[2].ok

\* C18: when unzip and ditto both fail on the root zip the failure is fatal:
\* the process exits with code 1, and neither the nested-extraction loop nor
\* the cleanup nor the summary runs.
C18_RootFailureFatal ==
  RootBothFailed =>
    /\ pc \in {"threw", "exited"}
    /\ pc = "exited" => exitCode = 1
    /\ calls = <<>> /\ processed = {} /\ pending = <<>>
    /\ rootTree = <<>>
    /\ ~CleanupRan
    /\ ~stats.printed

\* The run has ended on a root zip neither tool could extract.
C18_Witness ==
  /\ RootBothFailed
  /\ pc = "exited" /\ exitCode = 1
  /\ call.error = BothFailed(tools[1].msg, tools[2].msg)

\* C20: the extraction of a nested zip only adds to the tree: every file and
\* directory that was under rootOutputDir when the loop submitted the zip is
\* still there while the extraction runs and when it is over.
C20_NestedExtractionOnlyAdds ==
  (InNested /\ InCall) => \A q \in Under(before, outputDir) : Exists(fs, q)

\* The loop of extractNestedZips run as a function of the tree, with tools
\* that succeed on every intact archive and each listing taken in one fixed
\* order: unzipToDir on one pending zip, ...
IdealUnzipToDir(f, zp) ==
  LET pr == CHOOSE r \in prepareEmptyDir(f, NestedOutputDir(zp), 1) : TRUE
  IN  IF ~pr.threw /\ ToolCanExtract(pr.fs, zp, pr.dir)
      THEN [ok |-> TRUE, fs |-> Overlay(pr.fs, Written(pr.fs, zp, pr.dir, "unzip"))]
      ELSE [ok |-> FALSE, fs |-> pr.fs]

\* ... the for loop over the pending zips of one pass, ...
RECURSIVE IdealPass(_, _)
IdealPass(st, P) ==
  IF P = {} THEN st
  ELSE LET zp == CHOOSE z \in P : TRUE
           r == IdealUnzipToDir(st.fs, zp)
       IN  IdealPass([fs |-> r.fs,
                      processed |-> AddProcessed(st.processed, zp),
                      nestedZipCount |-> IF r.ok THEN st.nestedZipCount + 1 ELSE st.nestedZipCount,
                      nestedZipFailures |-> IF r.ok THEN st.nestedZipFailures
                                            ELSE CountFailure(st.nestedZipFailures)],
                     P \ {zp})

\* ... and the scan passes up to the break (at most `passes` of them).
RECURSIVE IdealLoop(_, _, _)
IdealLoop(st, rootOutputDir, passes) ==
  LET m == makeDirectoriesWritable(st.fs, rootOutputDir)
      P == PendingZips(m.fs, rootOutputDir, st.processed)
  IN  IF m.threw \/ P = {} \/ passes = 0 THEN [st EXCEPT !.fs = m.fs]
      ELSE IdealLoop(IdealPass([st EXCEPT !.fs = m.fs], P), rootOutputDir, passes - 1)

\* In the run so far the tools have succeeded on every intact archive: each
\* such nested zip was extracted by unzip at the first attempt.
ToolsSucceeded ==
  \A i \in CallIndexes :
    calls[i].content \in Archives => (calls[i].result = "ok" /\ calls[i].runs = 1)

C21_CountersSumToProcessed ==
  [][/\ pc' \in {"scan", "cleanup"} =>
          nestedZipCount' + nestedZipFailures' = Cardinality(processed')
     /\ nestedZipCount' >= nestedZipCount
     /\ nestedZipFailures' >= nestedZipFailures]_vars

\* A second scan pass begins after a pass with successes and a failure.
C21_Witness ==
  /\ pc = "scan"
  /\ nestedZipCount >= 1 /\ nestedZipFailures >= 1
  /\ nestedZipCount + nestedZipFailures = Cardinality(processed)
  /\ Len(calls) = Cardinality(processed)
====
